---- MODULE Spec2Model ----
(***************************************************************************)
(* toyterm (src/main.rs): the terminal grid Term<T>, the PTY session       *)
(* (Pty, set_term_size, spawn) and the multiplexer loop run.               *)
(***************************************************************************)
EXTENDS Integers, Sequences, FiniteSets, TLC

(* ---------------------------------------------------------------- bounds *)
\* Grid sizes drawn by GridInit are 1..MaxWidth x 1..MaxHeight.
MaxWidth == 3
MaxHeight == 3
\* Longest sequence of grid calls GridSpec applies.
MaxOps == 6
\* Display events the X server delivers in one run of the program.
MaxEvents == 2
\* Largest grid, in cells, that Init gives the program (main's is 80 x 25).
MaxArea == 4

(* ------------------------------------------------------------- constants *)
\* Option::None of a cell (Vec<Vec<Option<T>>>); Some(c) is the number c >= 0.
None == -1
\* b'\r' and b'\n' as run classifies them.
CR == 13
LF == 10
\* Cells the grid calls of GridSpec push: 'a' and 'b'.
GridCells == {97, 98}
\* Bytes the shell side of the PTY delivers: '\r', '\n' and 'a'.
ShellBytes == {CR, LF, 97}
\* What XLookupString decodes a key press into, as c_char: nothing (a
\* modifier key), ESC [ A (cursor up), and the two bytes of U+00E9.
KeySeqs == {<<>>, <<27, 91, 65>>, <<-61, -87>>}
\* The descriptors of the PTY pair, and the child's standard descriptors.
PtyFds == {"master", "slave"}

VARIABLES
    term,      \* Term<T>: [width, height, x, y, buffers]
    ops,       \* history: the grid calls applied so far, oldest first
    past,      \* history: past[i] is the grid before ops[i] was applied
    results,   \* history: results[i] is what ops[i] returned
    ppc,       \* where the originating process is in main / spawn / run
    result,    \* what main returned: "running", "Ok" or "Err"
    pfds,      \* descriptors of the PTY pair the originating process holds
    winsz,     \* history: the window-size requests issued on the master
    buf,       \* run's one-byte read buffer buf[0]
    readable,  \* run's FdSet after the last select
    pending,   \* rw_key: the decoded bytes not yet written
    written,   \* history: the bytes written to the PTY master
    decoded,   \* history: the c_chars decoded from the key presses taken
               \* off the queue, in order
    io,        \* history: the last system call of run and its result
    frame,     \* what the last redraw showed: <<grid>>, or <<>> before it
    nredraw,   \* redraw requests since select last returned
    due,       \* history: bytes classified and exposures taken off the
               \* queue since select last returned
    cpc,       \* where the forked child is
    cfds,      \* descriptors of the child that refer to the PTY pair
    cerr,      \* the step of the child branch that failed, or "none"
    cdone,     \* history: the steps of the child branch that succeeded
    ptyOut,    \* the PTY master has a byte of the shell's output to read
    xq,        \* the display's queued events, oldest first
    nev        \* display events delivered so far

hist == <<ops, past, results>>
parent ==
    <<ppc, result, pfds, winsz, buf, readable, pending, written, decoded, io,
      frame, nredraw, due>>
child == <<cpc, cfds, cerr, cdone>>
env == <<ptyOut, xq, nev>>
vars == <<term, hist, parent, child, env>>

(* ------------------------------------------------------------ Term<T>    *)
BlankRow(w) == [j \in 1..w |-> None]

\* impl Default for Term<T>, with the two sizes as parameters.
Default(w, h) ==
    [width |-> w, height |-> h, x |-> 0, y |-> 0,
     buffers |-> [i \in 1..h |-> BlankRow(w)]]

\* u32::saturating_sub
saturating_sub(a, b) == IF a >= b THEN a - b ELSE 0

\* Mutant of carriage_return: the cursor also goes to the top row.
carriage_return_home(t) == [t EXCEPT !.x = 0, !.y = 0]

carriage_return(t) == [t EXCEPT !.x = 0]

\* Mutant of rotate_once: the row that is pushed is one cell short.
rotate_once_short(t) ==
    [t EXCEPT !.buffers = Append(Tail(@), BlankRow(t.width - 1))]

\* Mutant of rotate_once: the bottom row is removed, not the top one.
rotate_once_bottom(t) ==
    [t EXCEPT !.buffers = Append(SubSeq(@, 1, Len(@) - 1), BlankRow(t.width))]

\* One pass of the loop body of rotate_buffer: Vec::remove(0), then push a row
\* of `width` None.
rotate_once(t) == [t EXCEPT !.buffers = Append(Tail(@), BlankRow(t.width))]

RECURSIVE rotate_buffer(_, _)
rotate_buffer(t, n) == IF n = 0 THEN t ELSE rotate_buffer(rotate_once(t), n - 1)

\* Mutant of line_feed: the scroll is taken but y is not clamped.
line_feed_noclamp(t) ==
    LET t1 == [t EXCEPT !.y = @ + 1]
    IN  IF t1.y >= t1.height THEN rotate_buffer(t1, 1) ELSE t1

\* Mutant of line_feed: the scroll rotates two rows.
line_feed_two(t) ==
    LET t1 == [t EXCEPT !.y = @ + 1]
    IN  IF t1.y >= t1.height
        THEN [rotate_buffer(t1, 2) EXCEPT !.y = saturating_sub(t1.height, 1)]
        ELSE t1

\* Mutant of line_feed: a line feed is also a carriage return.
line_feed_crlf(t) ==
    LET t1 == [t EXCEPT !.y = @ + 1, !.x = 0]
    IN  IF t1.y >= t1.height
        THEN [rotate_buffer(t1, 1) EXCEPT !.y = saturating_sub(t1.height, 1)]
        ELSE t1

line_feed(t) ==
    LET t1 == [t EXCEPT !.y = @ + 1]
    IN  IF t1.y >= t1.height
        THEN [rotate_buffer(t1, 1) EXCEPT !.y = saturating_sub(t1.height, 1)]
        ELSE t1

\* buffers.get_mut(y).and_then(|row| row.get_mut(x)) is Some
InBounds(t) ==
    /\ t.y < Len(t.buffers)
    /\ t.x < Len(t.buffers[t.y + 1])

\* Mutant of push_element: the wrap test is x > width.
push_element_gt(t, c) ==
    IF InBounds(t)
    THEN LET t1 == [t EXCEPT !.buffers[t.y + 1][t.x + 1] = c, !.x = @ + 1]
         IN  [term |-> IF t1.x > t1.width
                       THEN line_feed([t1 EXCEPT !.x = 0])
                       ELSE t1,
              res |-> "Ok"]
    ELSE [term |-> t, res |-> "CantPushElement"]

\* Mutant of push_element: the wrap does not reset x.
push_element_nowrapx(t, c) ==
    IF InBounds(t)
    THEN LET t1 == [t EXCEPT !.buffers[t.y + 1][t.x + 1] = c, !.x = @ + 1]
         IN  [term |-> IF t1.x >= t1.width THEN line_feed(t1) ELSE t1,
              res |-> "Ok"]
    ELSE [term |-> t, res |-> "CantPushElement"]

\* push_element returns the grid and Ok(()) or Err(CantPushElement).
push_element(t, c) ==
    IF InBounds(t)
    THEN LET t1 == [t EXCEPT !.buffers[t.y + 1][t.x + 1] = c, !.x = @ + 1]
         IN  [term |-> IF t1.x >= t1.width
                       THEN line_feed([t1 EXCEPT !.x = 0])
                       ELSE t1,
              res |-> "Ok"]
    ELSE [term |-> t, res |-> "CantPushElement"]

(* ------------------------------------------------------- main and spawn *)
\* impl Drop for PtyMaster closes the master when main returns and `pty`
\* goes out of scope; the slave is a raw c_int and has no destructor.
drop_pty(fds) == fds \ {"master"}

\* Mutant of main_after_spawn: the result of spawn is not looked at.
main_after_spawn_ignore(r) == "select"

\* `spawn(&pty)?` in main: on Ok the process goes on to run, on Err main
\* returns.
main_after_spawn(r) == IF r = "Ok" THEN "select" ELSE "exit"

\* main returns r: the process ends and `pty` is dropped.
MainReturns(r) ==
    /\ ppc' = "exit"
    /\ result' = r
    /\ pfds' = drop_pty(pfds)

\* `as u16` of a u32 in set_term_size.
AsU16(n) == n % 65536

\* Mutant of Winsize: rows and columns are swapped.
Winsize_swapped(t) == [ws_row |-> AsU16(t.width), ws_col |-> AsU16(t.height)]

\* set_term_size: the Winsize built from the grid, and the TIOCSWINSZ request.
Winsize(t) == [ws_row |-> AsU16(t.height), ws_col |-> AsU16(t.width)]

SetTermSizeOk ==
    /\ ppc = "set_term_size"
    /\ winsz' = Append(winsz, Winsize(term))
    /\ ppc' = "fork"
    /\ UNCHANGED <<frame, nredraw, due, io, term, hist, result, pfds, buf, readable, pending, written,
                   decoded, child, env>>

SetTermSizeErr ==
    /\ ppc = "set_term_size"
    /\ winsz' = Append(winsz, Winsize(term))
    /\ MainReturns("Err")
    /\ UNCHANGED <<frame, nredraw, due, io, term, hist, buf, readable, pending, written, decoded,
                   child, env>>

\* unistd::fork() returned Ok: the child starts with a copy of the descriptors.
ForkOk ==
    /\ ppc = "fork"
    /\ ppc' = "close_slave"
    /\ cpc' = "close_master"
    /\ cfds' = pfds
    /\ UNCHANGED <<frame, nredraw, due, io, term, hist, result, pfds, winsz, buf, readable, pending,
                   written, decoded, cerr, cdone, env>>

ForkErr ==
    /\ ppc = "fork"
    /\ main_after_spawn("Err") = "exit"
    /\ MainReturns("Err")
    /\ UNCHANGED <<frame, nredraw, due, io, term, hist, winsz, buf, readable, pending, written, decoded,
                   child, env>>

\* Parent branch of spawn: unistd::close(pty.slave())?; Ok(())
ParentCloseSlaveOk ==
    /\ ppc = "close_slave"
    /\ pfds' = pfds \ {"slave"}
    /\ ppc' = main_after_spawn("Ok")
    /\ UNCHANGED <<frame, nredraw, due, io, term, hist, result, winsz, buf, readable, pending, written,
                   decoded, child, env>>

ParentCloseSlaveErr ==
    /\ ppc = "close_slave"
    /\ MainReturns("Err")
    /\ UNCHANGED <<frame, nredraw, due, io, term, hist, winsz, buf, readable, pending, written, decoded,
                   child, env>>

\* Mutant of ChildSteps: the controlling terminal is requested before the
\* child has a session of its own.
ChildSteps_ctty_first ==
    <<"close_master", "ctty", "setsid", "dup2_0", "dup2_1", "dup2_2",
      "close_slave", "execve">>

\* Child branch of spawn, in program order.
ChildSteps ==
    <<"close_master", "setsid", "ctty", "dup2_0", "dup2_1", "dup2_2",
      "close_slave", "execve">>

StepIndex(step) == CHOOSE i \in 1..Len(ChildSteps) : ChildSteps[i] = step

\* The child's position after `step` succeeded; a successful execve replaces
\* the program image with the shell.
ChildAfter(step) ==
    IF step = "execve" THEN "shell" ELSE ChildSteps[StepIndex(step) + 1]

\* What a successful step does to the child's descriptors.
ChildFds(step, fds) ==
    CASE step = "close_master" -> fds \ {"master"}
      [] step = "dup2_0" -> fds \cup {"fd0"}
      [] step = "dup2_1" -> fds \cup {"fd1"}
      [] step = "dup2_2" -> fds \cup {"fd2"}
      [] step = "close_slave" -> fds \ {"slave"}
      [] OTHER -> fds

ChildStepOk ==
    /\ cpc \in {ChildSteps[i] : i \in 1..Len(ChildSteps)}
    /\ cfds' = ChildFds(cpc, cfds)
    /\ cpc' = ChildAfter(cpc)
    /\ cdone' = Append(cdone, cpc)
    /\ UNCHANGED <<term, hist, parent, cerr, env>>

\* A step of the child branch failed: `?` returns Err from spawn, and main's
\* `spawn(&pty)?` decides where the child goes; when main returns the
\* child process ends (by the Err, or by the panic of PtyMaster's destructor
\* on a master it has already closed) and its descriptors are gone.
ChildStepErr ==
    /\ cpc \in {ChildSteps[i] : i \in 1..Len(ChildSteps)}
    /\ cerr' = cpc
    /\ cpc' = IF main_after_spawn("Err") = "exit"
              THEN "exited" ELSE main_after_spawn("Err")
    /\ cfds' = IF main_after_spawn("Err") = "exit" THEN {} ELSE cfds
    /\ UNCHANGED <<term, hist, parent, cdone, env>>

(* ------------------------------------------------------- the shell side *)
\* The shell (or the line discipline's echo) puts output on the PTY.
ShellOutput ==
    /\ cpc = "shell"
    /\ ppc # "exit"
    /\ ~ptyOut
    /\ ptyOut' = TRUE
    /\ UNCHANGED <<term, hist, parent, child, xq, nev>>

ShellExit ==
    /\ cpc = "shell"
    /\ ppc # "exit"
    /\ cpc' = "exited"
    /\ cfds' = {}
    /\ UNCHANGED <<term, hist, parent, cerr, cdone, env>>

\* Every process that held the slave side is gone and the originating
\* process has closed its own copy.
Hangup == cpc = "exited" /\ "slave" \notin pfds

(* ------------------------------------------------------------ display   *)
Event(type, bytes) == [type |-> type, bytes |-> bytes]

Events ==
    {Event("Expose", <<>>), Event("KeyRelease", <<>>)}
        \cup {Event("KeyPress", k) : k \in KeySeqs}

\* The X server queues an event for the window.
XEvent(e) ==
    /\ ppc # "exit"
    /\ nev < MaxEvents
    /\ nev' = nev + 1
    /\ xq' = Append(xq, e)
    /\ UNCHANGED <<term, hist, parent, child, ptyOut>>

(* ------------------------------------------------------------------ run *)
\* `*b as u8` in rw_key: c_char to u8.
AsU8(b) == b % 256

\* Mutant of rw_key_bytes: the loop stops one byte early.
rw_key_bytes_short(cs) == [i \in 1..(Len(cs) - 1) |-> AsU8(cs[i])]

\* rw_key: buf.iter().take(num) over the num c_chars XLookupString decoded,
\* each stored in c[0] as a u8: the bytes rw_key writes, in order.
rw_key_bytes(cs) == [i \in 1..Len(cs) |-> AsU8(cs[i])]

\* The descriptors select reports: the master when it has output or has hung
\* up, the display connection when events are queued.
Ready ==
    (IF ptyOut \/ Hangup THEN {"master"} ELSE {})
        \cup (IF xq # <<>> THEN {"x11"} ELSE {})

\* The arm of run's match that a successful select takes.
select_arm(r) ==
    IF "master" \in r THEN "read"
    ELSE IF "x11" \in r THEN "drain"
    ELSE "select"

\* select(None, &mut readable, None, None, None) returned Ok: it blocks until
\* a descriptor is ready.
SelectOk ==
    /\ ppc = "select"
    /\ Ready # {}
    /\ readable' = Ready
    /\ ppc' = select_arm(Ready)
    /\ io' = "select:Ok"
    /\ nredraw' = 0 /\ due' = 0
    /\ UNCHANGED <<frame, term, hist, result, pfds, winsz, buf, pending, written,
                   decoded, child, env>>

\* Err(e) => return Err(Box::new(e))
SelectErr ==
    /\ ppc = "select"
    /\ MainReturns("Err")
    /\ io' = "select:Err"
    /\ UNCHANGED <<frame, nredraw, due, term, hist, winsz, buf, readable, pending, written, decoded,
                   child, env>>

\* match buf[0]: the grid call for a byte, with push_element's result.
classify(t, c) ==
    IF c = CR THEN [term |-> carriage_return(t), res |-> "Ok"]
    ELSE IF c = LF THEN [term |-> line_feed(t), res |-> "Ok"]
    ELSE push_element(t, c)

\* What run does with the result of unistd::read(pty.master(), &mut buf):
\* "return" with main's result, or "classify" buf[0].
after_read(r) ==
    IF r \in {"Ok1", "Ok0"} THEN [do |-> "classify", ret |-> "none"]
    ELSE [do |-> "return", ret |-> "Ok"]

\* X11::redraw: the frame drawn from the grid's rows and cursor.
redraw(t) == <<t>>

\* Mutant of frame_after_read: the redraw comes before the grid call.
frame_before_read(before, after) == redraw(before)

\* `x11.redraw()?` after the match on buf[0]: the frame shows the grid as
\* the grid call left it.
frame_after_read(before, after) == redraw(after)

\* The read branch once the read has returned r and buf[0] holds b.
ReadBranch(r, b) ==
    /\ buf' = b
    /\ IF after_read(r).do = "return"
       THEN /\ MainReturns(after_read(r).ret)
            /\ term' = term
            /\ UNCHANGED <<frame, nredraw>>
       ELSE IF classify(term, b).res = "Ok"
       THEN /\ term' = classify(term, b).term
            /\ frame' = frame_after_read(term, classify(term, b).term)
            /\ nredraw' = nredraw + 1
            /\ ppc' = "select"
            /\ UNCHANGED <<result, pfds>>
       ELSE /\ MainReturns("Err")
            /\ term' = term
            /\ UNCHANGED <<frame, nredraw>>

\* read returned Ok(1): one byte of the shell's output is in buf[0]; while
\* the shell runs more output may be waiting behind it.
ReadByte(b) ==
    /\ ppc = "read"
    /\ ptyOut
    /\ ReadBranch("Ok1", b)
    /\ \E more \in (IF cpc = "shell" THEN BOOLEAN ELSE {FALSE}) : ptyOut' = more
    /\ io' = "read:Ok1"
    /\ due' = IF ppc' = "select" THEN due + 1 ELSE due
    /\ UNCHANGED <<hist, winsz, readable, pending, written, decoded, child,
                   xq, nev>>

\* read returned Ok(0), the end of the stream: buf is left as it was.
ReadEof ==
    /\ ppc = "read"
    /\ ~ptyOut /\ Hangup
    /\ ReadBranch("Ok0", buf)
    /\ io' = "read:Ok0"
    /\ due' = IF ppc' = "select" THEN due + 1 ELSE due
    /\ UNCHANGED <<hist, winsz, readable, pending, written, decoded, child,
                   env>>

\* read returned Err (EIO once the slave side has hung up, or any other
\* failure): buf is left as it was.
ReadErr ==
    /\ ppc = "read"
    /\ ReadBranch("Err", buf)
    /\ io' = "read:Err"
    /\ due' = IF ppc' = "select" THEN due + 1 ELSE due
    /\ UNCHANGED <<hist, winsz, readable, pending, written, decoded, child,
                   env>>

\* Mutant of DrainEvent: a key press is also echoed on the grid.
DrainEvent_echo ==
    /\ ppc = "drain"
    /\ xq # <<>>
    /\ xq' = Tail(xq)
    /\ IF Head(xq).type = "KeyPress"
       THEN /\ pending' = rw_key_bytes(Head(xq).bytes)
            /\ decoded' = decoded \o Head(xq).bytes
            /\ ppc' = IF rw_key_bytes(Head(xq).bytes) = <<>>
                      THEN "drain" ELSE "write"
            /\ term' = IF Head(xq).bytes = <<>>
                       THEN term
                       ELSE push_element(term, AsU8(Head(xq).bytes[1])).term
       ELSE UNCHANGED <<pending, decoded, ppc, term>>
    /\ IF Head(xq).type = "Expose"
       THEN /\ frame' = redraw(term)
            /\ nredraw' = nredraw + 1
            /\ due' = due + 1
       ELSE UNCHANGED <<frame, nredraw, due>>
    /\ UNCHANGED <<io, hist, result, pfds, winsz, buf, readable, written,
                   child, ptyOut, nev>>

\* while XPending > 0 { XNextEvent; match event.type_ { ... } }: one event.
\* Expose redraws, KeyPress enters rw_key with the decoded bytes, any other
\* type is dropped.
DrainEvent ==
    /\ ppc = "drain"
    /\ xq # <<>>
    /\ xq' = Tail(xq)
    /\ IF Head(xq).type = "KeyPress"
       THEN /\ pending' = rw_key_bytes(Head(xq).bytes)
            /\ decoded' = decoded \o Head(xq).bytes
            /\ ppc' = IF rw_key_bytes(Head(xq).bytes) = <<>>
                      THEN "drain" ELSE "write"
       ELSE UNCHANGED <<pending, decoded, ppc>>
    /\ IF Head(xq).type = "Expose"
       THEN /\ frame' = redraw(term)
            /\ nredraw' = nredraw + 1
            /\ due' = due + 1
       ELSE UNCHANGED <<frame, nredraw, due>>
    /\ UNCHANGED <<io, term, hist, result, pfds, winsz, buf, readable, written,
                   child, ptyOut, nev>>

\* XPending returned 0: the while loop ends and run selects again.
DrainDone ==
    /\ ppc = "drain"
    /\ xq = <<>>
    /\ ppc' = "select"
    /\ UNCHANGED <<frame, nredraw, due, io, term, hist, result, pfds, winsz, buf, readable, pending,
                   written, decoded, child, env>>

\* rw_key: unistd::write(pty.master(), &c[..])? of the next decoded byte.
WriteOk ==
    /\ ppc = "write"
    /\ written' = Append(written, Head(pending))
    /\ pending' = Tail(pending)
    /\ ppc' = IF Tail(pending) = <<>> THEN "drain" ELSE "write"
    /\ io' = "write:Ok"
    /\ UNCHANGED <<frame, nredraw, due, term, hist, result, pfds, winsz, buf, readable, decoded,
                   child, env>>

WriteErr ==
    /\ ppc = "write"
    /\ MainReturns("Err")
    /\ io' = "write:Err"
    /\ UNCHANGED <<frame, nredraw, due, term, hist, winsz, buf, readable, pending, written, decoded,
                   child, env>>

(* -------------------------------------------------- grid calls (GridSpec) *)
Op(kind, cell) == [kind |-> kind, cell |-> cell]

Record(op, res) ==
    /\ ops' = Append(ops, op)
    /\ past' = Append(past, term)
    /\ results' = Append(results, res)
    /\ UNCHANGED <<parent, child, env>>

PushElement(c) ==
    /\ Len(ops) < MaxOps
    /\ term' = push_element(term, c).term
    /\ Record(Op("push", c), push_element(term, c).res)

CarriageReturn ==
    /\ Len(ops) < MaxOps
    /\ term' = carriage_return(term)
    /\ Record(Op("cr", None), "Ok")

LineFeed ==
    /\ Len(ops) < MaxOps
    /\ term' = line_feed(term)
    /\ Record(Op("lf", None), "Ok")

\* main after X11::new and Pty::new: the grid is fresh, the PTY pair is open,
\* nothing has been forked.
Started ==
    /\ ops = <<>> /\ past = <<>> /\ results = <<>>
    /\ ppc = "set_term_size" /\ result = "running"
    /\ pfds = PtyFds
    /\ winsz = <<>>
    /\ buf = 0
    /\ readable = {}
    /\ pending = <<>> /\ written = <<>> /\ decoded = <<>>
    /\ io = "none"
    /\ frame = <<>> /\ nredraw = 0 /\ due = 0
    /\ cpc = "none" /\ cfds = {} /\ cerr = "none" /\ cdone = <<>>
    /\ ptyOut = FALSE
    /\ xq = <<>> /\ nev = 0

GridInit ==
    /\ \E w \in 1..MaxWidth, h \in 1..MaxHeight : term = Default(w, h)
    /\ Started

GridNext ==
    \/ \E c \in GridCells : PushElement(c)
    \/ CarriageReturn
    \/ LineFeed

GridSpec == GridInit /\ [][GridNext]_vars

(* ------------------------------------------------------------ the program *)
Init ==
    /\ \E w \in 1..MaxArea, h \in 1..MaxArea :
          /\ w * h <= MaxArea
          /\ term = Default(w, h)
    /\ Started

\* The steps of the originating process other than the read that returns
\* Ok(0).
ParentSteps ==
    \/ SetTermSizeOk \/ SetTermSizeErr
    \/ ForkOk \/ ForkErr
    \/ ParentCloseSlaveOk \/ ParentCloseSlaveErr
    \/ SelectOk \/ SelectErr
    \/ \E b \in ShellBytes : ReadByte(b)
    \/ ReadErr
    \/ DrainEvent \/ DrainDone
    \/ WriteOk \/ WriteErr

\* The child, the shell and the X server.
OtherNext ==
    \/ ChildStepOk \/ ChildStepErr
    \/ ShellOutput \/ ShellExit
    \/ \E e \in Events : XEvent(e)

Next == ParentSteps \/ ReadEof \/ OtherNext

Spec == Init /\ [][Next]_vars

\* A hung-up master reports EIO (ReadErr), as Linux does, and never Ok(0).
FairNext == ParentSteps \/ OtherNext

\* The originating process is a running process: it takes its next step
\* whenever it is not blocked in select.
FairSpec == Init /\ [][FairNext]_vars /\ WF_vars(ParentSteps)

(* ================================================================ claims *)
\* States[i] is the grid before ops[i]; States[Len(ops) + 1] is the grid now.
States == Append(past, term)

\* ops[i .. i+n-1] are n calls of the same kind.
RunOf(kind, i, n) ==
    /\ i + n - 1 <= Len(ops)
    /\ \A k \in i..(i + n - 1) : ops[k].kind = kind

\* The cells pushed by ops[i .. i+n-1].
CellsOf(i, n) == [k \in 1..n |-> ops[i + k - 1].cell]

GridShape(t) ==
    /\ Len(t.buffers) = t.height
    /\ \A i \in 1..Len(t.buffers) : Len(t.buffers[i]) = t.width

\* C1: after every call of any sequence of push_element, carriage_return and
\* line_feed on a fresh grid, the grid has exactly `height` rows and every
\* row has exactly `width` cells.
C1_GridShape == GridShape(term)

\* C1 witness: a line feed on the bottom row of a grid that holds a cell has
\* scrolled.
C1_Witness ==
    \E i \in 1..Len(ops) :
        /\ ops[i].kind = "lf"
        /\ States[i].y = States[i].height - 1
        /\ States[i].buffers # Default(term.width, term.height).buffers

\* C2: in every reachable state the cursor satisfies 0 <= x < width and
\* 0 <= y < height.
C2_CursorInGrid ==
    /\ 0 <= term.x /\ term.x < term.width
    /\ 0 <= term.y /\ term.y < term.height

\* C2 witness: a push into the last column of the bottom row has wrapped.
C2_Witness ==
    \E i \in 1..Len(ops) :
        /\ ops[i].kind = "push"
        /\ States[i].x = States[i].width - 1
        /\ States[i].y = States[i].height - 1
        /\ States[i].width >= 2

C4_ScrollLaw ==
    \A i \in 1..Len(ops) :
        LET s == States[i] IN
        (RunOf("lf", i, s.height) /\ s.y = 0) =>
            LET e == States[i + s.height] IN
            /\ e.buffers = Append(Tail(s.buffers), BlankRow(s.width))
            /\ Len(e.buffers) = s.height
            /\ e.y = s.height - 1

\* C4 witness: `height` line feeds were applied from y = 0 to a grid of
\* several rows whose top row held a cell.
C4_Witness ==
    \E i \in 1..Len(ops) :
        /\ RunOf("lf", i, States[i].height) /\ States[i].y = 0
        /\ States[i].height >= 2
        /\ States[i].buffers[1] # BlankRow(States[i].width)

\* ops[i] is a carriage return and ops[i+1] a push.
CrThenPush(i) ==
    /\ i + 1 <= Len(ops)
    /\ ops[i].kind = "cr"
    /\ ops[i + 1].kind = "push"

\* The rows of s with cell c stored in column 0 of the cursor's row.
StoredAtColumn0(s, c) == [s.buffers EXCEPT ![s.y + 1][1] = c]

\* carriage_return alone sets x to 0 and leaves y and every cell unchanged.
CrAlone ==
    \A i \in 1..Len(ops) :
        ops[i].kind = "cr" => States[i + 1] = [States[i] EXCEPT !.x = 0]

ScrolledByOne(s, rows, e) ==
    /\ Len(e.buffers) = s.height
    /\ \A r \in 1..(s.height - 1) : e.buffers[r] = rows[r + 1]
    /\ e.buffers[s.height] = BlankRow(s.width)
    /\ e.y = s.height - 1

\* ops[i] is a line feed called on the bottom row.
ExplicitScroll(i) ==
    /\ ops[i].kind = "lf"
    /\ States[i].y = States[i].height - 1

\* ops[i] is a push into the last column of the bottom row.
WrapScroll(i) ==
    /\ ops[i].kind = "push"
    /\ States[i].x = States[i].width - 1
    /\ States[i].y = States[i].height - 1

\* C13: one line feed with cursor.y = height-1 scrolls by exactly one row
\* (new row i is old row i+1, the last row is unset, cursor.y stays
\* height-1), and a line feed induced by a wrap in push_element scrolls the
\* same way.
C13_ScrollByOne ==
    \A i \in 1..Len(ops) :
        LET s == States[i]
            e == States[i + 1]
        IN  /\ ExplicitScroll(i) =>
                  ScrolledByOne(s, s.buffers, e) /\ e.x = s.x
            /\ WrapScroll(i) =>
                  /\ ScrolledByOne(s,
                         [s.buffers EXCEPT ![s.y + 1][s.x + 1] = ops[i].cell], e)
                  /\ e.x = 0

\* C13 witness: in a grid of several rows and columns, an explicit line
\* feed and a wrap have each scrolled a row that held a cell.
C13_Witness ==
    /\ \E i \in 1..Len(ops) :
          /\ ExplicitScroll(i)
          /\ States[i].height >= 2
          /\ States[i].buffers[States[i].height] # BlankRow(States[i].width)
    /\ \E i \in 1..Len(ops) :
          /\ WrapScroll(i)
          /\ States[i].height >= 2 /\ States[i].width >= 2

\* C16: from a fresh grid, under any sequence of push_element,
\* carriage_return and line_feed calls, no push_element call returns
\* CantPushElement.
C16_PushNeverFails == \A i \in 1..Len(ops) : results[i] = "Ok"

\* C16 witness: a push into the last cell of the grid wrapped and scrolled,
\* and the push after it returned Ok.
C16_Witness ==
    \E i \in 1..Len(ops) :
        /\ WrapScroll(i)
        /\ i + 1 <= Len(ops)
        /\ ops[i + 1].kind = "push"
        /\ results[i + 1] = "Ok"
        /\ States[i].width >= 2

\* C20: line_feed never changes cursor.x, and called with
\* cursor.y < height-1 it increments cursor.y by exactly one and leaves every
\* cell unchanged.
C20_LineFeedFrame ==
    \A i \in 1..Len(ops) :
        ops[i].kind = "lf" =>
            LET s == States[i]
                e == States[i + 1]
            IN  /\ e.x = s.x
                /\ s.y < s.height - 1 =>
                      (e.y = s.y + 1 /\ e.buffers = s.buffers)

\* C20 witness: a line feed was called above the bottom row with the cursor
\* right of column 0, on a grid that held a cell.
C20_Witness ==
    \E i \in 1..Len(ops) :
        /\ ops[i].kind = "lf"
        /\ States[i].x > 0
        /\ States[i].y < States[i].height - 1

\* The positions of a process inside run.
RunPcs == {"select", "read", "drain", "write"}

\* C5: whenever a read on the PTY master reports end-of-stream, run ends and
\* returns success.
C5_EofEndsRun == io = "read:Ok0" => (ppc = "exit" /\ result = "Ok")

\* C7: a failed read of the PTY master, a failed write to it and a failed
\* select each end run with an error, never with success.
C7_IoFailureIsError ==
    io \in {"read:Err", "write:Err", "select:Err"} =>
        (ppc = "exit" /\ result = "Err")

\* A c_char as the byte it stands for.
ByteOf(c) == IF c < 0 THEN c + 256 ELSE c

\* C8: the bytes written to the PTY master are the bytes of the decoded key
\* presses, one write per byte, in sequence order and in event order; every
\* byte of a key press is written before the next event is taken.
C8_WritesFollowKeys ==
    /\ Len(written) + Len(pending) = Len(decoded)
    /\ \A i \in 1..Len(written) : written[i] = ByteOf(decoded[i])
    /\ \A i \in 1..Len(pending) :
          pending[i] = ByteOf(decoded[Len(written) + i])
    /\ ppc \in {"select", "read", "drain"} => pending = <<>>

\* C8 witness: two key presses of three and two bytes were written out in
\* full and the loop went on.
C8_Witness ==
    /\ written = <<27, 91, 65, 195, 169>>
    /\ decoded = <<27, 91, 65, -61, -87>>
    /\ ppc = "select"

\* C9: a failure of any step of the child branch of spawn ends the child
\* process; the child is never inside run.
C9_ChildNeverRuns ==
    /\ cpc \notin RunPcs
    /\ cerr # "none" => cpc = "exited"

\* C9 witness: the child's execve failed, after every earlier step of the
\* branch had succeeded, and the child is gone.
C9_Witness == cerr = "execve" /\ cpc = "exited"

\* C10: when the originating process ends, it has closed both the master and
\* the slave descriptor.
C10_FdsClosedAtExit == ppc = "exit" => pfds = {}

\* The order in which the child is to prepare itself for the shell.
ChildOrder ==
    <<"close_master", "setsid", "ctty", "dup2_0", "dup2_1", "dup2_2",
      "close_slave", "execve">>

\* C18: once spawn has returned Ok the originating process does not hold the
\* slave; the child's successful steps are, in order, close master, new
\* session, controlling terminal, dup2 onto 0, 1 and 2, close slave, exec;
\* after its first step the child does not hold the master, and the shell
\* holds the slave only as descriptors 0, 1 and 2.
C18_SpawnHandsOver ==
    /\ ppc \in RunPcs => "slave" \notin pfds
    /\ Len(cdone) <= Len(ChildOrder)
    /\ cdone = SubSeq(ChildOrder, 1, Len(cdone))
    /\ cdone # <<>> => "master" \notin cfds
    /\ cpc = "shell" => cdone = ChildOrder /\ cfds = {"fd0", "fd1", "fd2"}

\* C18 witness: the shell runs and the originating process is in run.
C18_Witness ==
    /\ cpc = "shell" /\ ppc \in RunPcs
    /\ cfds = {"fd0", "fd1", "fd2"} /\ pfds = {"master"}

\* C19: servicing the display branch of run (taking events off the queue,
\* writing key bytes to the PTY master) leaves the grid, cursor included,
\* as it was.
C19_DisplayKeepsGrid ==
    [][(ppc \in {"drain", "write"}) => (term' = term)]_vars

\* C19 witness: key bytes went to the PTY master while the grid held a cell
\* written from the PTY, and the grid is what that byte alone made it.
C19_Witness ==
    /\ written # <<>> /\ ppc = "select"
    /\ io = "write:Ok"
    /\ \E r \in 1..term.height : \E c \in 1..term.width :
           term.buffers[r][c] # None

\* C11: exactly one window-size request is issued on the master, with
\* rows = grid height and cols = grid width, before run starts; none is
\* issued inside run.
C11_OneWindowSize ==
    /\ Len(winsz) <= 1
    /\ ppc # "set_term_size" =>
          /\ Len(winsz) = 1
          /\ winsz[1] = [ws_row |-> term.height, ws_col |-> term.width]

\* C11 witness: run has read a byte and selects again, on a grid whose
\* height differs from its width.
C11_Witness ==
    /\ ppc = "select" /\ io = "read:Ok1"
    /\ Len(winsz) = 1
    /\ term.width # term.height

\* C14: whenever run goes back to select after a wakeup on which the
\* display was ready, the display's event queue is empty, also when the PTY
\* master was ready on the same wakeup.
C14_DrainedBeforeWait ==
    [][(ppc \in {"read", "drain"} /\ "x11" \in readable /\ ppc' = "select")
           => xq' = <<>>]_vars

\* The grid after the one call that byte b stands for.
GridAfterByte(t, b) ==
    IF b = CR THEN carriage_return(t)
    ELSE IF b = LF THEN line_feed(t)
    ELSE push_element(t, b).term

\* C15: run applies exactly one grid call per byte the PTY master delivers,
\* the one the byte stands for, and a read that delivers no byte applies no
\* grid call.
C15_OneCallPerByte ==
    [][(ppc = "read" /\ ppc' # "read")
           => IF io' = "read:Ok1"
              THEN term' = GridAfterByte(term, buf')
              ELSE term' = term]_vars

\* C17: every byte read and classified is followed by exactly one redraw
\* request before run selects again, every exposure taken off the queue is
\* followed by one, and the frame shows the grid with the byte's effect.
C17_RedrawFollows ==
    /\ nredraw = due
    /\ (ppc = "select" /\ io = "read:Ok1") => nredraw = 1
    /\ nredraw > 0 => frame = <<term>>

\* C17 witness: a byte that changed the grid was read and redrawn, and on a
\* later wakeup two exposures were drained and redrawn.
C17_Witness ==
    /\ ppc = "select" /\ io = "select:Ok"
    /\ nredraw = 2
    /\ buf = 97
    /\ frame = <<term>>

\* The originating process is inside run.
InRun == ppc \in {"select", "read", "drain", "write"}

\* C6, first half: events queued on the display are eventually taken up by
\* the display branch of run (or run ends), however long the PTY master
\* stays readable.
C6_DisplayServed == (InRun /\ xq # <<>>) ~> (ppc \in {"drain", "exit"})

\* C6, second half: output waiting on the PTY master is eventually read (or
\* run ends), whatever events the display delivers.
C6_PtyServed == (InRun /\ ptyOut) ~> (ppc \in {"read", "exit"})

\* C6: neither source starves the other.
C6_NoStarvation == C6_DisplayServed /\ C6_PtyServed

====
